---- MODULE Spec2Model ----
(***************************************************************************)
(* ShellCast: the Session (ShellCast struct), its start/stop operations,  *)
(* the Process Runners of ExecuteCommand and ExecuteSplitCommands with    *)
(* their two stream drains, the interactive control loop and the          *)
(* termination-signal goroutine.                                          *)
(***************************************************************************)
EXTENDS Integers, Sequences, FiniteSets, TLC

\* ------------------------------------------------------------------ bounds
\* children spawned by one Session (single commands and split commands together)
MaxCmds == 2
\* lines the children of one Session write, stdout and stderr together
MaxLines == 2
\* commands the operator gives in one Session, before quit
MaxOps == 3
\* encoder processes one Session spawns
MaxEnc == 2
\* wall-clock seconds the model follows
MaxClock == 1

\* ------------------------------------------------------------- vocabulary
Threads == {"main", "sig"}
Cmds == 1..MaxCmds
Streams == {"out", "err"}
\* a line of a child: shorter than the Scanner's token limit, or longer
Kinds == {"short", "long"}
\* a path of the file system: no file there, or a file and its content
NoFile == [exists |-> FALSE, data |-> <<>>]
File(content) == [exists |-> TRUE, data |-> content]
NoPath == <<"", 0>>
TmpPath == <<"tmp", 0>>
UserPath == <<"user", 0>>
RecPath(t) == <<"rec", t>>
Paths == {TmpPath, UserPath} \cup {RecPath(t) : t \in 0..MaxClock}

SeqsUpTo(S, n) == UNION {[1..k -> S] : k \in 0..n}
\* what a child writes: its stdout lines and its stderr lines
ScriptLen(sc) == Len(sc.out) + Len(sc.err)
Scripts ==
  {sc \in [out : SeqsUpTo(Kinds, MaxLines), err : SeqsUpTo(Kinds, MaxLines)] :
      ScriptLen(sc) <= MaxLines}
NoScript == [out |-> <<>>, err |-> <<>>]
\* a command string, as characters: the empty string, a blank, a word
Commands == {<<>>, <<" ">>, <<"x">>}
NoCommand == <<"-">>

VARIABLES
  \* ShellCast struct
  OutputFile, ShowTimestamp, outputBuffer, mutex,
  streaming, streamProc, recording, recordPath, startTime,
  \* the world: clock, file system, encoder processes
  now, files, encoder,
  \* control: the two threads that call Session operations
  pc, ret, lastErr, exited, ops, startStop,
  \* children, Runners and drains
  child, script, command, tag, runner, drain, pos, cur, dest, pub, pipeClosed,
  splitSet, reported

session == <<OutputFile, ShowTimestamp, outputBuffer, mutex,
             streaming, streamProc, recording, recordPath, startTime>>
world == <<now, files, encoder>>
control == <<pc, ret, lastErr, exited, ops, startStop>>
procs == <<child, script, command, tag, runner, drain, pos, cur, dest, pub,
           pipeClosed, splitSet, reported>>
vars == <<session, world, control, procs>>


\* ------------------------------------------------------------------ helpers
Drains == Cmds \X Streams
NoLine == <<>>
\* the mutex is free or held by a thread or a drain
Free == <<>>
\* the flags as they were when a drain appended its line to the buffer
NoPub == [s |-> FALSE, r |-> FALSE]

\* formatOutput: the timestamp bracket goes in front of whatever it is given
formatOutput(line) ==
  IF ShowTimestamp THEN <<<<"ts">>>> \o line ELSE line

\* the line a split Runner hands to formatOutput: prefix + line
WithPrefix(n, raw) == <<<<"CMD", n>>, raw>>

LineEntry(text) == [k |-> "line", text |-> text, at |-> 0, dur |-> 0]
HeaderEntry(t) == [k |-> "header", text |-> <<>>, at |-> t, dur |-> 0]
FooterEntry(t, d) == [k |-> "footer", text |-> <<>>, at |-> t, dur |-> d]

\* appendToFile: O_APPEND|O_WRONLY|O_CREATE, so a missing file is created
appendToFile(fs, path, entry) ==
  [fs EXCEPT ![path] = File(Append(@.data, entry))]

\* os.WriteFile: create or truncate, then write
WriteFile(fs, path, content) == [fs EXCEPT ![path] = File(content)]

BufferDump == [i \in 1..Len(outputBuffer) |-> LineEntry(outputBuffer[i])]

\* a function returns to its caller with an error value ("" is nil)
\* startStop follows the control path's commands: "started", with the
\* capture-file path, after a StartStreaming that returned nil; "stopped"
\* after a StopStreaming that returned nil right after it; NoPass after any
\* other command
NoPass == <<"none", NoPath>>
Return(t, err) ==
  /\ pc' = [pc EXCEPT ![t] = ret[t]]
  /\ lastErr' = [lastErr EXCEPT ![t] = err]
  /\ startStop' =
       IF t = "main" /\ ret[t] = "idle"
         THEN IF pc[t] = "ss_flag" /\ err = "" THEN <<"started", OutputFile>>
              ELSE IF pc[t] = "st_finish" /\ err = "" /\ startStop[1] = "started"
                THEN <<"stopped", startStop[2]>>
                ELSE NoPass
         ELSE startStop
  /\ UNCHANGED <<ret, exited, ops>>

Goto(t, label) ==
  /\ pc' = [pc EXCEPT ![t] = label]
  /\ UNCHANGED <<ret, lastErr, exited, ops, startStop>>

Running == ~exited

\* ------------------------------------------------------------ NewShellCast
Init ==
  /\ OutputFile \in {NoPath, UserPath}
  /\ ShowTimestamp \in BOOLEAN
  /\ outputBuffer = <<>>
  /\ mutex = Free
  /\ streaming = FALSE
  /\ streamProc = 0
  /\ recording = FALSE
  /\ recordPath = NoPath
  /\ startTime = 0
  /\ now = 0
  /\ files = [p \in Paths |-> NoFile]
  /\ encoder = [e \in 1..MaxEnc |-> "unused"]
  /\ pc = [t \in Threads |-> IF t = "main" THEN "idle" ELSE "wait"]
  /\ ret = [t \in Threads |-> IF t = "main" THEN "idle" ELSE "cl_done"]
  /\ lastErr = [t \in Threads |-> ""]
  /\ exited = FALSE
  /\ ops = 0
  /\ startStop = NoPass
  /\ child = [c \in Cmds |-> "none"]
  /\ script = [c \in Cmds |-> NoScript]
  /\ command = [c \in Cmds |-> NoCommand]
  /\ tag = [c \in Cmds |-> 0]
  /\ runner = [c \in Cmds |-> "none"]
  /\ drain = [d \in Drains |-> "none"]
  /\ pos = [d \in Drains |-> 0]
  /\ cur = [d \in Drains |-> NoLine]
  /\ dest = [d \in Drains |-> NoPath]
  /\ pub = [d \in Drains |-> NoPub]
  /\ pipeClosed = [c \in Cmds |-> FALSE]
  /\ splitSet = {}
  /\ reported = [c \in Cmds |-> "none"]

\* ---------------------------------------------------------- StartStreaming
\* lines 136-148: the already-streaming check, then the temporary capture file
StartStreamingCheck(t) ==
  /\ Running /\ pc[t] = "ss_check"
  /\ IF streaming
       THEN /\ Return(t, "already streaming")
            /\ UNCHANGED <<session, world>>
       ELSE IF OutputFile # NoPath
         THEN /\ Goto(t, "ss_lock")
              /\ UNCHANGED <<session, world>>
         ELSE \/ /\ files[TmpPath] = NoFile      \* os.CreateTemp: a fresh name
                 /\ files' = [files EXCEPT ![TmpPath] = File(<<>>)]
                 /\ OutputFile' = TmpPath
                 /\ Goto(t, "ss_lock")
                 /\ UNCHANGED <<ShowTimestamp, outputBuffer, mutex, streaming,
                                streamProc, recording, recordPath, startTime,
                                now, encoder>>
              \/ /\ Return(t, "error creating temp file")
                 /\ UNCHANGED <<session, world>>
  /\ UNCHANGED procs

\* line 151: s.mutex.Lock()
StartStreamingLock(t) ==
  /\ Running /\ pc[t] = "ss_lock"
  /\ mutex = Free
  /\ mutex' = <<t>>
  /\ Goto(t, "ss_write")
  /\ UNCHANGED <<OutputFile, ShowTimestamp, outputBuffer, streaming, streamProc,
                 recording, recordPath, startTime, world, procs>>

\* lines 152-156: the buffer dump, Unlock, the error return
StartStreamingWrite(t) ==
  /\ Running /\ pc[t] = "ss_write"
  /\ mutex' = Free
  /\ \/ /\ files' = WriteFile(files, OutputFile, BufferDump)
        /\ Goto(t, "ss_spawn")
     \/ /\ files' = files
        /\ Return(t, "error writing to output file")
  /\ UNCHANGED <<OutputFile, ShowTimestamp, outputBuffer, streaming, streamProc,
                 recording, recordPath, startTime, now, encoder, procs>>

\* lines 180-188: cmd.Start of the encoder, s.streamProc = cmd.Process
StartStreamingSpawn(t) ==
  /\ Running /\ pc[t] = "ss_spawn"
  /\ \/ \E e \in 1..MaxEnc :
          /\ encoder[e] = "unused"
          /\ \A f \in 1..MaxEnc : f < e => encoder[f] # "unused"
          /\ encoder' = [encoder EXCEPT ![e] = "running"]
          /\ streamProc' = e
          /\ Goto(t, "ss_flag")
     \/ /\ Return(t, "error starting FFmpeg")
        /\ UNCHANGED <<streamProc, encoder>>
  /\ UNCHANGED <<OutputFile, ShowTimestamp, outputBuffer, mutex, streaming,
                 recording, recordPath, startTime, now, files, procs>>

\* lines 189-192: s.streaming = true, return nil
StartStreamingFlag(t) ==
  /\ Running /\ pc[t] = "ss_flag"
  /\ streaming' = TRUE
  /\ Return(t, "")
  /\ UNCHANGED <<OutputFile, ShowTimestamp, outputBuffer, mutex, streamProc,
                 recording, recordPath, startTime, world, procs>>

\* ----------------------------------------------------------- StopStreaming
\* lines 216-218
StopStreamingCheck(t) ==
  /\ Running /\ pc[t] = "st_check"
  /\ IF ~streaming \/ streamProc = 0
       THEN Return(t, "not streaming")
       ELSE Goto(t, "st_kill")
  /\ UNCHANGED <<session, world, procs>>

\* lines 221-223: s.streamProc.Kill(); a nil handle is a nil dereference,
\* which ends the process with a panic; a Kill that reaches an encoder
\* already killed (not reaped: nothing calls Wait) kills it again
StopStreamingKill(t) ==
  /\ Running /\ pc[t] = "st_kill"
  /\ IF streamProc = 0
       THEN /\ exited' = TRUE
            /\ lastErr' = [lastErr EXCEPT ![t] = "panic"]
            /\ UNCHANGED <<pc, ret, ops, startStop, encoder>>
       ELSE \/ /\ encoder' = [encoder EXCEPT ![streamProc] =
                                 IF @ = "running" THEN "killed" ELSE "rekilled"]
               /\ Goto(t, "st_finish")
            \/ /\ Return(t, "error killing FFmpeg process")
               /\ UNCHANGED encoder
  /\ UNCHANGED <<session, now, files, procs>>

\* StopStreaming that forgets the path and leaves the capture file on disk
StopStreamingKeepsFile(t) ==
  /\ Running /\ pc[t] = "st_finish"
  /\ streaming' = FALSE
  /\ streamProc' = 0
  /\ OutputFile' = NoPath
  /\ Return(t, "")
  /\ UNCHANGED <<ShowTimestamp, outputBuffer, mutex, recording, recordPath,
                 startTime, world, procs>>

\* lines 225-235: clear the flag and the handle, remove the capture file
StopStreamingFinish(t) ==
  /\ Running /\ pc[t] = "st_finish"
  /\ streaming' = FALSE
  /\ streamProc' = 0
  /\ IF OutputFile # NoPath
       THEN /\ files' = [files EXCEPT ![OutputFile] = NoFile]
            /\ OutputFile' = NoPath
       ELSE UNCHANGED <<files, OutputFile>>
  /\ Return(t, "")
  /\ UNCHANGED <<ShowTimestamp, outputBuffer, mutex, recording, recordPath,
                 startTime, now, encoder, procs>>


\* ---------------------------------------------------------- StartRecording
\* lines 240-264: the already-recording check, the directory, the file name
\* from the current time, the header
StartRecordingCheck(t) ==
  /\ Running /\ pc[t] = "sr_check"
  /\ IF recording
       THEN /\ Return(t, "already recording")
            /\ UNCHANGED <<recordPath, files>>
       ELSE \/ /\ Return(t, "error creating recordings directory")
               /\ UNCHANGED <<recordPath, files>>
            \/ /\ recordPath' = RecPath(now)
               /\ \/ /\ files' = WriteFile(files, RecPath(now), <<HeaderEntry(now)>>)
                     /\ Goto(t, "sr_flag")
                  \/ /\ files' = files
                     /\ Return(t, "error writing to record file")
  /\ UNCHANGED <<OutputFile, ShowTimestamp, outputBuffer, mutex, streaming,
                 streamProc, recording, startTime, now, encoder, procs>>

\* lines 266-268: s.recording = true, return nil
StartRecordingFlag(t) ==
  /\ Running /\ pc[t] = "sr_flag"
  /\ recording' = TRUE
  /\ Return(t, "")
  /\ UNCHANGED <<OutputFile, ShowTimestamp, outputBuffer, mutex, streaming,
                 streamProc, recordPath, startTime, world, procs>>

\* ----------------------------------------------------------- StopRecording
\* StopRecording without its not-recording check
StopRecordingUnchecked(t) ==
  /\ Running /\ pc[t] = "rr_check"
  /\ Goto(t, "rr_finish")
  /\ UNCHANGED <<session, world, procs>>

\* lines 273-275
StopRecordingCheck(t) ==
  /\ Running /\ pc[t] = "rr_check"
  /\ IF ~recording
       THEN Return(t, "not recording")
       ELSE Goto(t, "rr_finish")
  /\ UNCHANGED <<session, world, procs>>

\* lines 277-289: the footer (time.Since(s.startTime)), s.recording = false
StopRecordingFinish(t) ==
  /\ Running /\ pc[t] = "rr_finish"
  /\ \/ /\ files' = appendToFile(files, recordPath, FooterEntry(now, now - startTime))
        /\ recording' = FALSE
        /\ Return(t, "")
     \/ /\ Return(t, "error writing to record file")
        /\ UNCHANGED <<files, recording>>
  /\ UNCHANGED <<OutputFile, ShowTimestamp, outputBuffer, mutex, streaming,
                 streamProc, recordPath, startTime, now, encoder, procs>>

\* ----------------------------------------------------------------- Cleanup
Call(t, label, back) ==
  /\ pc' = [pc EXCEPT ![t] = label]
  /\ ret' = [ret EXCEPT ![t] = back]
  /\ UNCHANGED <<lastErr, exited, ops, startStop>>

\* lines 397-399
CleanupStreaming(t) ==
  /\ Running /\ pc[t] = "cl_1"
  /\ IF streaming THEN Call(t, "st_check", "cl_2") ELSE Goto(t, "cl_2")
  /\ UNCHANGED <<session, world, procs>>

\* Cleanup that looks at the recording path where the code looks at the flag
CleanupRecordingByPath(t) ==
  /\ Running /\ pc[t] = "cl_2"
  /\ IF recordPath # NoPath THEN Call(t, "rr_finish", "cl_end") ELSE Goto(t, "cl_end")
  /\ UNCHANGED <<session, world, procs>>

\* lines 401-403
CleanupRecording(t) ==
  /\ Running /\ pc[t] = "cl_2"
  /\ IF recording THEN Call(t, "rr_check", "cl_end") ELSE Goto(t, "cl_end")
  /\ UNCHANGED <<session, world, procs>>

\* main.go 119 (os.Exit after the signal path's Cleanup) and main.go 177
\* (main returns after its Cleanup): the process ends, with every goroutine
ProcessExit(t) ==
  /\ Running /\ pc[t] = "cl_end"
  /\ exited' = TRUE
  /\ UNCHANGED <<pc, ret, lastErr, ops, startStop, session, world, procs>>

\* main.go 115-118: the signal goroutine receives SIGINT/SIGTERM
Signal ==
  /\ Running /\ pc["sig"] = "wait"
  /\ Goto("sig", "cl_1")
  /\ UNCHANGED <<session, world, procs>>

\* a second passes while the control path waits, for input or for a command
Tick ==
  /\ Running /\ now < MaxClock
  /\ pc["main"] \in {"idle", "ec_wg", "ec_wait", "es_wait"}
  /\ now' = now + 1
  /\ UNCHANGED <<session, files, encoder, control, procs>>

\* ------------------------------------------------- the interactive commands
Idle == Running /\ pc["main"] = "idle"

\* interactive.go 25-47: the loop reads the next command; err of the previous
\* command is gone
Prompt == Idle /\ ops < MaxOps /\ ops' = ops + 1

\* interactive.go 57-86: stream, stop, record, stoprecord
Command(label) ==
  /\ Prompt
  /\ pc' = [pc EXCEPT !["main"] = label]
  /\ ret' = [ret EXCEPT !["main"] = "idle"]
  /\ lastErr' = [lastErr EXCEPT !["main"] = ""]
  /\ UNCHANGED <<exited, startStop, session, world, procs>>

CmdStream == Command("ss_check")
CmdStop == Command("st_check")
CmdRecord == Command("sr_check")
CmdStopRecord == Command("rr_check")

\* interactive.go 51-52 and main.go 177: exit or quit, then Cleanup
CmdQuit ==
  /\ Idle
  /\ pc' = [pc EXCEPT !["main"] = "cl_1"]
  /\ ret' = [ret EXCEPT !["main"] = "cl_end"]
  /\ lastErr' = [lastErr EXCEPT !["main"] = ""]
  /\ UNCHANGED <<exited, ops, startStop, session, world, procs>>

\* main.go 126-151: a command line with an RTMP URL starts streaming before
\* its command, after the recording that -record asked for, and log.Fatalf
\* ends the process when StartStreaming fails; no Cleanup runs
StartStreamingErrors ==
  {"error creating temp file", "error writing to output file",
   "error starting FFmpeg"}
FatalExit ==
  /\ Idle /\ ops <= 2
  /\ lastErr["main"] \in StartStreamingErrors
  /\ exited' = TRUE
  /\ UNCHANGED <<pc, ret, lastErr, ops, startStop, session, world, procs>>

\* interactive.go 172-183: sc.config = config, every field replaced by the
\* loaded file's, the capture-file path (output_file) included
CmdLoad ==
  /\ Prompt
  /\ \E f \in {NoPath, UserPath}, ts \in BOOLEAN :
        /\ <<f, ts>> # <<OutputFile, ShowTimestamp>>
        /\ OutputFile' = f
        /\ ShowTimestamp' = ts
  /\ lastErr' = [lastErr EXCEPT !["main"] = ""]
  /\ startStop' = NoPass
  /\ UNCHANGED <<outputBuffer, mutex, streaming, streamProc, recording,
                 recordPath, startTime, world, pc, ret, exited, procs>>


\* ------------------------------------------------------------ Process Runner
Unused == {c \in Cmds : child[c] = "none" /\ runner[c] = "none"}
Used == Cmds \ Unused
RECURSIVE LinesOf(_)
LinesOf(S) ==
  IF S = {} THEN 0
  ELSE LET c == CHOOSE x \in S : TRUE IN ScriptLen(script[c]) + LinesOf(S \ {c})
\* what a child about to be spawned may write
ScriptsLeft == {sc \in Scripts : ScriptLen(sc) + LinesOf(Cmds) <= MaxLines}
Exited(c) == child[c] \in {"exit0", "exit1"}

\* strings.Split(command, " "): the pieces between the blanks; a string with
\* no blank, the empty string too, is one piece
RECURSIVE Split(_)
Split(str) ==
  IF \E i \in 1..Len(str) : str[i] = " "
    THEN LET i == CHOOSE k \in 1..Len(str) :
                    str[k] = " " /\ \A j \in 1..(k - 1) : str[j] # " "
         IN <<SubSeq(str, 1, i - 1)>> \o Split(SubSeq(str, i + 1, Len(str)))
    ELSE <<str>>

\* cmd.Start succeeded: the child runs and both drain goroutines are started
Spawned(c, sc, n, who) ==
  /\ child' = [child EXCEPT ![c] = "running"]
  /\ script' = [script EXCEPT ![c] = sc]
  /\ tag' = [tag EXCEPT ![c] = n]
  /\ runner' = [runner EXCEPT ![c] = who]
  /\ drain' = [d \in Drains |-> IF d[1] = c THEN "scan" ELSE drain[d]]

\* the child ends once it has written all its output; a line longer than the
\* pipe holds keeps it writing until a reader takes the line
ChildExit(c) ==
  /\ Running /\ child[c] = "running"
  /\ \A s \in Streams : \A i \in (pos[<<c, s>>] + 1)..Len(script[c][s]) :
        script[c][s][i] # "long"
  /\ \E st \in {"exit0", "exit1"} : child' = [child EXCEPT ![c] = st]
  /\ UNCHANGED <<session, world, control, script, command, tag, runner, drain, pos, cur,
                 dest, pub, pipeClosed, splitSet, reported>>

\* ExecuteCommand lines 38-66: strings.Split and the length check, the pipes,
\* cmd.Start (which fails on an empty program name as on any other that
\* cannot be started), the two drains
ExecuteCommandStart ==
  /\ Prompt /\ Unused # {}
  /\ LET c == CHOOSE x \in Unused : \A y \in Unused : x <= y IN
     \E str \in Commands :
       LET parts == Split(str) IN
       /\ command' = [command EXCEPT ![c] = str]
       /\ IF Len(parts) = 0
            THEN /\ child' = [child EXCEPT ![c] = "rejected"]
                 /\ runner' = [runner EXCEPT ![c] = "main"]
                 /\ reported' = [reported EXCEPT ![c] = "error"]
                 /\ pc' = pc
                 /\ lastErr' = [lastErr EXCEPT !["main"] = "empty command"]
                 /\ UNCHANGED <<script, tag, drain>>
            ELSE \/ /\ parts[1] # <<>>
                    /\ \E sc \in ScriptsLeft : Spawned(c, sc, 0, "main")
                    /\ pc' = [pc EXCEPT !["main"] = "ec_wg"]
                    /\ lastErr' = [lastErr EXCEPT !["main"] = ""]
                    /\ UNCHANGED reported
                 \/ /\ child' = [child EXCEPT ![c] = "spawnfail"]
                    /\ runner' = [runner EXCEPT ![c] = "main"]
                    /\ reported' = [reported EXCEPT ![c] = "error"]
                    /\ pc' = pc
                    /\ lastErr' = [lastErr EXCEPT !["main"] = "error starting command"]
                    /\ UNCHANGED <<script, tag, drain>>
  /\ startStop' = NoPass
  /\ UNCHANGED <<ret, exited>>
  /\ UNCHANGED <<session, world, pos, cur, dest, pub, pipeClosed, splitSet>>

Mine == {c \in Cmds : runner[c] = "main" /\ reported[c] = "none"}

\* line 121: wg.Wait() for the two drains
ExecuteCommandWgWait ==
  /\ Running /\ pc["main"] = "ec_wg"
  /\ \A c \in Mine : \A s \in Streams : drain[<<c, s>>] = "done"
  /\ Goto("main", "ec_wait")
  /\ UNCHANGED <<session, world, procs>>

\* line 122: return cmd.Wait(), nil for exit status 0
ExecuteCommandWait ==
  /\ Running /\ pc["main"] = "ec_wait"
  /\ \A c \in Mine : Exited(c)
  /\ reported' = [c \in Cmds |-> IF c \in Mine
                     THEN (IF child[c] = "exit0" THEN "nil" ELSE "error")
                     ELSE reported[c]]
  /\ pipeClosed' = [c \in Cmds |-> pipeClosed[c] \/ c \in Mine]
  /\ pc' = [pc EXCEPT !["main"] = "idle"]
  /\ lastErr' = [lastErr EXCEPT !["main"] =
        IF \A c \in Mine : child[c] = "exit0" THEN "" ELSE "exit status 1"]
  /\ UNCHANGED <<ret, exited, ops, startStop, session, world, child, script, command, tag, runner,
                 drain, pos, cur, dest, pub, splitSet>>

\* ------------------------------------------------------ ExecuteSplitCommands
\* lines 293-305: one goroutine per command, wg.Add(len(commands))
ExecuteSplitCommandsStart ==
  /\ Prompt
  /\ \E n \in 0..Cardinality(Unused) :
       IF n = 0
         THEN /\ lastErr' = [lastErr EXCEPT !["main"] =
                               "no commands provided for split screen"]
              /\ UNCHANGED <<pc, runner, tag, splitSet>>
         ELSE LET base == Cardinality(Used) IN
              /\ runner' = [c \in Cmds |->
                    IF c \in (base + 1)..(base + n) THEN "new" ELSE runner[c]]
              /\ tag' = [c \in Cmds |->
                    IF c \in (base + 1)..(base + n) THEN c - base ELSE tag[c]]
              /\ splitSet' = (base + 1)..(base + n)
              /\ pc' = [pc EXCEPT !["main"] = "es_wait"]
              /\ lastErr' = [lastErr EXCEPT !["main"] = ""]
  /\ startStop' = NoPass
  /\ UNCHANGED <<ret, exited>>
  /\ UNCHANGED <<session, world, child, script, command, drain, pos, cur, dest,
                 pub, pipeClosed, reported>>

\* lines 308-336 of one Runner goroutine: strings.Split and the length check,
\* the pipes and cmd.Start; a failure is printed and the goroutine returns
\* (wg.Done)
RunnerStart(c) ==
  /\ Running /\ runner[c] = "new"
  /\ \E str \in Commands :
       LET parts == Split(str) IN
       /\ command' = [command EXCEPT ![c] = str]
       /\ IF Len(parts) = 0
            THEN /\ child' = [child EXCEPT ![c] = "rejected"]
                 /\ runner' = [runner EXCEPT ![c] = "done"]
                 /\ UNCHANGED <<script, tag, drain>>
            ELSE \/ /\ parts[1] # <<>>
                    /\ \E sc \in ScriptsLeft : Spawned(c, sc, tag[c], "wait")
                 \/ /\ child' = [child EXCEPT ![c] = "spawnfail"]
                    /\ runner' = [runner EXCEPT ![c] = "done"]
                    /\ UNCHANGED <<script, tag, drain>>
  /\ UNCHANGED <<session, world, control, pos, cur, dest, pub, pipeClosed,
                 splitSet, reported>>

\* lines 384-387: cmd.Wait() right after the drains were started; Wait closes
\* the pipes once the child has exited, whatever the drains have read; wg.Done
RunnerWait(c) ==
  /\ Running /\ runner[c] = "wait"
  /\ Exited(c)
  /\ pipeClosed' = [pipeClosed EXCEPT ![c] = TRUE]
  /\ runner' = [runner EXCEPT ![c] = "done"]
  /\ UNCHANGED <<session, world, control, child, script, command, tag, drain, pos, cur,
                 dest, pub, splitSet, reported>>

\* lines 390-392: wg.Wait() for the Runner goroutines, return nil
ExecuteSplitCommandsReturn ==
  /\ Running /\ pc["main"] = "es_wait"
  /\ \A c \in splitSet : runner[c] = "done"
  /\ reported' = [c \in Cmds |-> IF c \in splitSet THEN "nil" ELSE reported[c]]
  /\ splitSet' = {}
  /\ pc' = [pc EXCEPT !["main"] = "idle"]
  /\ lastErr' = [lastErr EXCEPT !["main"] = ""]
  /\ UNCHANGED <<ret, exited, ops, startStop, session, world, child, script, command, tag, runner,
                 drain, pos, cur, dest, pub, pipeClosed>>

\* -------------------------------------------------------------------- drains
Raw(d, i) == <<"raw", d[1], d[2], i>>

\* the line as the drain formats it: lines 74 and 343
Formatted(d, i) ==
  IF tag[d[1]] = 0
    THEN formatOutput(<<Raw(d, i)>>)
    ELSE formatOutput(WithPrefix(tag[d[1]], Raw(d, i)))

\* a drain that appends without taking the mutex
DrainScanUnlocked(d) ==
  /\ Running /\ drain[d] = "scan"
  /\ LET c == d[1]
         lines == script[c][d[2]]
     IN IF pipeClosed[c]
          THEN /\ drain' = [drain EXCEPT ![d] = "done"]
               /\ UNCHANGED <<mutex, pos, cur>>
          ELSE IF pos[d] < Len(lines)
            THEN IF lines[pos[d] + 1] = "long"
                   THEN /\ drain' = [drain EXCEPT ![d] = "done"]
                        /\ pos' = [pos EXCEPT ![d] = @ + 1]
                        /\ UNCHANGED <<mutex, cur>>
                   ELSE /\ mutex' = d
                        /\ cur' = [cur EXCEPT ![d] = Formatted(d, pos[d] + 1)]
                        /\ pos' = [pos EXCEPT ![d] = @ + 1]
                        /\ drain' = [drain EXCEPT ![d] = "append"]
            ELSE /\ Exited(c)
                 /\ drain' = [drain EXCEPT ![d] = "done"]
                 /\ UNCHANGED <<mutex, pos, cur>>
  /\ UNCHANGED <<OutputFile, ShowTimestamp, outputBuffer, streaming, streamProc,
                 recording, recordPath, startTime, world, control, child, script, command,
                 tag, runner, dest, pub, pipeClosed, splitSet, reported>>

\* scanner.Scan(), formatOutput, s.mutex.Lock(): lines 72-78 and 341-347.
\* Scan is false at end of stream, on a closed pipe and on a line over the
\* Scanner's token limit (bufio.ErrTooLong)
DrainScan(d) ==
  /\ Running /\ drain[d] = "scan"
  /\ LET c == d[1]
         lines == script[c][d[2]]
     IN IF pipeClosed[c]
          THEN /\ drain' = [drain EXCEPT ![d] = "done"]
               /\ UNCHANGED <<mutex, pos, cur>>
          ELSE IF pos[d] < Len(lines)
            THEN IF lines[pos[d] + 1] = "long"
                   THEN /\ drain' = [drain EXCEPT ![d] = "done"]
                        /\ pos' = [pos EXCEPT ![d] = @ + 1]
                        /\ UNCHANGED <<mutex, cur>>
                   ELSE /\ mutex = Free
                        /\ mutex' = d
                        /\ cur' = [cur EXCEPT ![d] = Formatted(d, pos[d] + 1)]
                        /\ pos' = [pos EXCEPT ![d] = @ + 1]
                        /\ drain' = [drain EXCEPT ![d] = "append"]
            ELSE /\ Exited(c)
                 /\ drain' = [drain EXCEPT ![d] = "done"]
                 /\ UNCHANGED <<mutex, pos, cur>>
  /\ UNCHANGED <<OutputFile, ShowTimestamp, outputBuffer, streaming, streamProc,
                 recording, recordPath, startTime, world, control, child, script, command,
                 tag, runner, dest, pub, pipeClosed, splitSet, reported>>

\* a drain that puts its line in front of the buffer
DrainAppendFront(d) ==
  /\ Running /\ drain[d] = "append"
  /\ outputBuffer' = <<cur[d]>> \o outputBuffer
  /\ mutex' = Free
  /\ pub' = [pub EXCEPT ![d] = [s |-> streaming, r |-> recording]]
  /\ drain' = [drain EXCEPT ![d] = "chkS"]
  /\ UNCHANGED <<OutputFile, ShowTimestamp, streaming, streamProc, recording,
                 recordPath, startTime, world, control, child, script, command, tag,
                 runner, pos, cur, dest, pipeClosed, splitSet, reported>>

\* s.outputBuffer += formattedLine + "\n"; s.mutex.Unlock(): lines 79-80
DrainAppend(d) ==
  /\ Running /\ drain[d] = "append"
  /\ outputBuffer' = Append(outputBuffer, cur[d])
  /\ mutex' = Free
  /\ pub' = [pub EXCEPT ![d] = [s |-> streaming, r |-> recording]]
  /\ drain' = [drain EXCEPT ![d] = "chkS"]
  /\ UNCHANGED <<OutputFile, ShowTimestamp, streaming, streamProc, recording,
                 recordPath, startTime, world, control, child, script, command, tag,
                 runner, pos, cur, dest, pipeClosed, splitSet, reported>>

\* if s.streaming && s.config.OutputFile != "": line 83
DrainCheckStreaming(d) ==
  /\ Running /\ drain[d] = "chkS"
  /\ IF streaming /\ OutputFile # NoPath
       THEN /\ dest' = [dest EXCEPT ![d] = OutputFile]
            /\ drain' = [drain EXCEPT ![d] = "appS"]
       ELSE /\ drain' = [drain EXCEPT ![d] = "chkR"]
            /\ UNCHANGED dest
  /\ UNCHANGED <<session, world, control, child, script, command, tag, runner, pos, cur,
                 pub, pipeClosed, splitSet, reported>>

\* appendToFile(s.config.OutputFile, ...): line 84; the path is read again
\* for the call, and an empty path opens nothing
DrainAppendStreaming(d) ==
  /\ Running /\ drain[d] = "appS"
  /\ \E p \in {dest[d], OutputFile} :
       files' = IF p = NoPath THEN files ELSE appendToFile(files, p, LineEntry(cur[d]))
  /\ dest' = [dest EXCEPT ![d] = NoPath]
  /\ drain' = [drain EXCEPT ![d] = "chkR"]
  /\ UNCHANGED <<session, now, encoder, control, child, script, command, tag,
                 runner, pos, cur, pub, pipeClosed, splitSet, reported>>

\* if s.recording && s.recordPath != "": line 88
DrainCheckRecording(d) ==
  /\ Running /\ drain[d] = "chkR"
  /\ IF recording /\ recordPath # NoPath
       THEN /\ dest' = [dest EXCEPT ![d] = recordPath]
            /\ drain' = [drain EXCEPT ![d] = "appR"]
            /\ UNCHANGED <<cur, pub>>
       ELSE /\ drain' = [drain EXCEPT ![d] = "scan"]
            /\ cur' = [cur EXCEPT ![d] = NoLine]
            /\ pub' = [pub EXCEPT ![d] = NoPub]
            /\ UNCHANGED dest
  /\ UNCHANGED <<session, world, control, child, script, command, tag, runner, pos,
                 pipeClosed, splitSet, reported>>

\* appendToFile(s.recordPath, ...): line 89
DrainAppendRecording(d) ==
  /\ Running /\ drain[d] = "appR"
  /\ files' = appendToFile(files, recordPath, LineEntry(cur[d]))
  /\ dest' = [dest EXCEPT ![d] = NoPath]
  /\ cur' = [cur EXCEPT ![d] = NoLine]
  /\ pub' = [pub EXCEPT ![d] = NoPub]
  /\ drain' = [drain EXCEPT ![d] = "scan"]
  /\ UNCHANGED <<session, now, encoder, control, child, script, command, tag,
                 runner, pos, pipeClosed, splitSet, reported>>

\* ------------------------------------------------------------ specification
SessionOp(t) ==
  \/ StartStreamingCheck(t) \/ StartStreamingLock(t) \/ StartStreamingWrite(t)
  \/ StartStreamingSpawn(t) \/ StartStreamingFlag(t)
  \/ StopStreamingCheck(t) \/ StopStreamingKill(t) \/ StopStreamingFinish(t)
  \/ StartRecordingCheck(t) \/ StartRecordingFlag(t)
  \/ StopRecordingCheck(t) \/ StopRecordingFinish(t)
  \/ CleanupStreaming(t) \/ CleanupRecording(t) \/ ProcessExit(t)

\* the operator's lifecycle commands
Operator ==
  CmdStream \/ CmdStop \/ CmdRecord \/ CmdStopRecord \/ CmdQuit

\* the Runners: commands, children and drains
Runners ==
  \/ ExecuteCommandStart \/ ExecuteCommandWgWait \/ ExecuteCommandWait
  \/ ExecuteSplitCommandsStart \/ ExecuteSplitCommandsReturn
  \/ \E c \in Cmds : RunnerStart(c) \/ RunnerWait(c) \/ ChildExit(c)
  \/ \E d \in Drains :
        \/ DrainScan(d) \/ DrainAppend(d)
        \/ DrainCheckStreaming(d) \/ DrainAppendStreaming(d)
        \/ DrainCheckRecording(d) \/ DrainAppendRecording(d)

\* the whole program
Next ==
  \/ \E t \in Threads : SessionOp(t)
  \/ Signal \/ Tick \/ Operator \/ CmdLoad \/ FatalExit
  \/ Runners

Spec == Init /\ [][Next]_vars

\* the Session's lifecycle alone: the control path and the signal path, the
\* clock and the configuration, with no command running
NextSession ==
  \/ \E t \in Threads : SessionOp(t)
  \/ Signal \/ Tick \/ Operator \/ CmdLoad \/ FatalExit

SpecSession == Init /\ [][NextSession]_vars

\* single commands under the lifecycle commands and the signal path: the
\* drains of ExecuteCommand against start and stop
NextSinks ==
  \/ \E t \in Threads : SessionOp(t)
  \/ Signal \/ Operator
  \/ ExecuteCommandStart \/ ExecuteCommandWgWait \/ ExecuteCommandWait
  \/ \E c \in Cmds : ChildExit(c)
  \/ \E d \in Drains :
        \/ DrainScan(d) \/ DrainAppend(d)
        \/ DrainCheckStreaming(d) \/ DrainAppendStreaming(d)
        \/ DrainCheckRecording(d) \/ DrainAppendRecording(d)

SpecSinks == Init /\ [][NextSinks]_vars

\* split commands after the lifecycle commands of the control path, which
\* come before the first child is spawned: the Runner goroutines of
\* ExecuteSplitCommands, their children and drains
NextSplit ==
  \/ StartStreamingCheck("main") \/ StartStreamingLock("main")
  \/ StartStreamingWrite("main") \/ StartStreamingSpawn("main")
  \/ StartStreamingFlag("main")
  \/ StartRecordingCheck("main") \/ StartRecordingFlag("main")
  \/ (Unused = Cmds /\ CmdStream) \/ (Unused = Cmds /\ CmdRecord)
  \/ ExecuteSplitCommandsStart \/ ExecuteSplitCommandsReturn
  \/ \E c \in Cmds : RunnerStart(c) \/ RunnerWait(c) \/ ChildExit(c)
  \/ \E d \in Drains :
        \/ DrainScan(d) \/ DrainAppend(d)
        \/ DrainCheckStreaming(d) \/ DrainAppendStreaming(d)
        \/ DrainCheckRecording(d) \/ DrainAppendRecording(d)

\* config.go 41-53: the default configuration names no capture file
InitSplit == Init /\ OutputFile = NoPath

SpecSplit == InitSplit /\ [][NextSplit]_vars

\* the stream command given after a split command whose drains are still
\* publishing (ExecuteSplitCommands does not wait for them): StartStreaming's
\* buffer dump against the drains; no recording
NextDump ==
  \/ StartStreamingCheck("main") \/ StartStreamingLock("main")
  \/ StartStreamingWrite("main") \/ StartStreamingSpawn("main")
  \/ StartStreamingFlag("main")
  \/ (Used # {} /\ CmdStream)
  \/ ExecuteSplitCommandsStart \/ ExecuteSplitCommandsReturn
  \/ \E c \in Cmds : RunnerStart(c) \/ RunnerWait(c) \/ ChildExit(c)
  \/ \E d \in Drains :
        \/ DrainScan(d) \/ DrainAppend(d)
        \/ DrainCheckStreaming(d) \/ DrainAppendStreaming(d)
        \/ DrainCheckRecording(d)

SpecDump == InitSplit /\ [][NextDump]_vars


\* ================================================================== claims
InStreamingOp(t) ==
  pc[t] \in {"ss_check", "ss_lock", "ss_write", "ss_spawn", "ss_flag",
             "st_check", "st_kill", "st_finish"}
InRecordingOp(t) == pc[t] \in {"sr_check", "sr_flag", "rr_check", "rr_finish"}

\* C1: whenever no StartStreaming or StopStreaming call is in progress, the
\* encoder handle is non-nil exactly when the streaming flag is true, also
\* after the calls that returned an error.
C1_HandleIffStreaming ==
  (\A t \in Threads : ~InStreamingOp(t)) => ((streamProc # 0) <=> streaming)

\* C2: whenever no StartRecording or StopRecording call is in progress, the
\* recording path is set exactly when the recording flag is true.
C2_SinkIffRecording ==
  (\A t \in Threads : ~InRecordingOp(t)) => ((recordPath # NoPath) <=> recording)

\* C8: a start call on an Active subsystem and a stop call on an Idle one
\* return their state-conflict error and change neither the Session (flags,
\* handle, paths, buffer) nor any file nor any encoder.
Conflict(t, label, err) ==
  (pc[t] = label /\ pc'[t] # label) =>
     /\ pc'[t] = ret[t]
     /\ lastErr'[t] = err
     /\ UNCHANGED <<session, world>>
C8_ConflictMutatesNothing ==
  [][\A t \in Threads :
       /\ streaming => Conflict(t, "ss_check", "already streaming")
       /\ ~streaming => Conflict(t, "st_check", "not streaming")
       /\ recording => Conflict(t, "sr_check", "already recording")
       /\ ~recording => Conflict(t, "rr_check", "not recording")]_vars

\* StopRecording with no StartRecording before it: the error, and no file
C8_Witness ==
  /\ pc["main"] = "idle"
  /\ lastErr["main"] = "not recording"
  /\ recordPath = NoPath
  /\ \A p \in Paths : ~files[p].exists

\* C9: when a StopStreaming that returns nil directly follows a StartStreaming
\* that returned nil, the flag is false, the handle nil, no encoder runs, and
\* a capture file the Session created is gone from the disk.
C9_StartThenStop ==
  [][(/\ pc["main"] = "st_finish" /\ startStop[1] = "started"
      /\ pc'["main"] = "idle" /\ lastErr'["main"] = "")
       => /\ ~streaming' /\ streamProc' = 0
          /\ \A e \in 1..MaxEnc : encoder'[e] # "running"
          /\ startStop[2] = TmpPath => ~files'[TmpPath].exists]_vars

\* start then stop, on a capture file the Session created
C9_Witness ==
  /\ pc["main"] = "idle"
  /\ startStop = <<"stopped", TmpPath>>
  /\ \E e \in 1..MaxEnc : encoder[e] = "killed"

\* C10: StopStreaming leaves a capture file the caller supplied on the disk.
C10_CallerFileKept ==
  [][\A t \in Threads :
       (pc[t] = "st_finish" /\ pc'[t] # "st_finish" /\ files[UserPath].exists)
          => files'[UserPath].exists]_vars


\* ------------------------------------------------------- claims on Runners
\* the buffer entries that came from child c, and those of one of its lines
IsFrom(text, c) == text[Len(text)][2] = c
FromChild(c) == SelectSeq(outputBuffer, LAMBDA text : IsFrom(text, c))
Copies(d, i) == Len(SelectSeq(outputBuffer, LAMBDA text : text[Len(text)] = Raw(d, i)))

\* every line child c wrote is in the buffer exactly once, formatted as its
\* Runner formats it, and the buffer holds nothing else from c
AllPublished(c) ==
  /\ Len(FromChild(c)) = ScriptLen(script[c])
  /\ \A s \in Streams : \A i \in 1..Len(script[c][s]) :
        /\ Copies(<<c, s>>, i) = 1
        /\ \E k \in 1..Len(outputBuffer) : outputBuffer[k] = Formatted(<<c, s>>, i)

\* C3: a published line is written to the capture file exactly when streaming
\* was active at its buffer append, to the recording file exactly when
\* recording was active at its buffer append, and is always in the buffer.
C3_SinksAsAtPublish ==
  [][\A d \in Drains :
       /\ (drain[d] = "append" /\ drain'[d] = "chkS")
            => outputBuffer' = Append(outputBuffer, cur[d])
       /\ (drain[d] \in {"chkS", "appS"} /\ drain'[d] = "chkR")
            => (pub[d].s <=> files' # files)
       /\ (drain[d] \in {"chkR", "appR"} /\ drain'[d] = "scan")
            => (pub[d].r <=> files' # files)]_vars

\* C4: once ExecuteCommand has returned nil for a child that exited 0, the
\* buffer holds exactly the lines the child wrote, each once, each formatted
\* per the timestamp policy.
C4_SingleCommandLines ==
  \A c \in Cmds :
     (runner[c] = "main" /\ reported[c] = "nil" /\ child[c] = "exit0")
        => AllPublished(c)

\* C5: once ExecuteSplitCommands has returned, both drains of every child it
\* spawned are exhausted, the child has exited, and the buffer holds every
\* line of the child exactly once, tagged with the command's position.
C5_SplitWaitsForDrains ==
  \A c \in Cmds :
     (tag[c] # 0 /\ reported[c] # "none" /\ child[c] # "spawnfail")
        => /\ \A s \in Streams : drain[<<c, s>>] = "done"
           /\ Exited(c)
           /\ AllPublished(c)

\* the outcome of command c: success, non-zero exit or spawn failure
Outcome(c) == IF child[c] = "exit0" THEN "nil" ELSE "error"

\* C6: what ExecuteSplitCommands reports for command i is the outcome of
\* command i.
C6_SplitOutcomes ==
  \A c \in Cmds : (tag[c] # 0 /\ reported[c] # "none") => reported[c] = Outcome(c)

\* two commands of the same ExecuteSplitCommands call
SameSplit(c, o) == c # o /\ tag[c] # 0 /\ tag[o] # 0 /\ c - tag[c] = o - tag[o]

\* C7: when one command of a split fails to spawn or exits non-zero, every
\* other command of the split has all its lines published by the time
\* ExecuteSplitCommands returns.
C7_FailureIsolated ==
  \A c, o \in Cmds :
     (/\ SameSplit(c, o)
      /\ reported[c] # "none" /\ reported[o] # "none"
      /\ child[o] \in {"spawnfail", "exit1"}
      /\ Exited(c))
        => AllPublished(c)


\* ------------------------------------------------------- claims on Cleanup
\* the footers a file holds
Footers(p) == Len(SelectSeq(files[p].data, LAMBDA e : e.k = "footer"))

\* no recording has a second footer, no encoder was terminated twice, and no
\* call ended in a panic
NoDuplicateEffect ==
  /\ \A p \in Paths : Footers(p) <= 1
  /\ \A e \in 1..MaxEnc : encoder[e] # "rekilled"
  /\ \A t \in Threads : lastErr[t] # "panic"

\* the control path's Cleanup has returned and the signal path's has not begun
CleanupReturned ==
  pc["main"] = "cl_end" /\ pc["sig"] \in {"wait", "cl_1"}

\* C11: when Cleanup is called again after a Cleanup that has returned (the
\* signal path's call after the control path's), the second call ends without
\* a panic, adds no second footer to a recording and terminates no encoder a
\* second time.
C11_CleanupTwice == [](CleanupReturned => []NoDuplicateEffect)

\* both calls have returned, after a recording and a stream were stopped
C11_Witness ==
  /\ pc["main"] = "cl_end" /\ pc["sig"] = "cl_end" /\ ~exited
  /\ ~streaming /\ ~recording
  /\ \E p \in Paths : Footers(p) = 1
  /\ \E e \in 1..MaxEnc : encoder[e] = "killed"

\* C12: when the signal path runs Cleanup while the control path is inside
\* its own Cleanup, under every interleaving the control path's StopStreaming
\* does not call Kill on a handle the other call has set to nil (a panic), does
\* not kill an encoder already killed, and its StopRecording does not add a
\* second footer to the recording.
C12_CleanupRaceSafe ==
  [][/\ (pc["main"] = "st_kill" /\ ret["main"] = "cl_2")
          => /\ lastErr'["main"] # "panic"
             /\ pc'["main"] = "st_finish" => encoder[streamProc] = "running"
     /\ (pc["main"] = "rr_finish" /\ ret["main"] = "cl_end")
          => Footers(recordPath)' <= 1]_vars

\* C13: when the process has ended, by main's return, by the signal path's
\* os.Exit or by log.Fatalf, streaming and recording are not Active: no flag
\* is set, no encoder runs, and every recording file has its footer.
C13_StoppedBeforeExit ==
  exited => /\ ~streaming /\ ~recording
            /\ \A e \in 1..MaxEnc : encoder[e] # "running"
            /\ \A p \in Paths : files[p].exists /\ p[1] = "rec" => Footers(p) >= 1

\* two start or stop calls on the same subsystem are past their first check
InStreamingBody(t) ==
  pc[t] \in {"ss_lock", "ss_write", "ss_spawn", "ss_flag", "st_kill", "st_finish"}
InRecordingBody(t) == pc[t] \in {"sr_flag", "rr_finish"}

\* C14: no two of StartStreaming and StopStreaming, and no two of
\* StartRecording and StopRecording, are in progress at the same time, called
\* directly or through Cleanup.
C14_StartStopExclusive ==
  /\ ~(InStreamingBody("main") /\ InStreamingBody("sig"))
  /\ ~(InRecordingBody("main") /\ InRecordingBody("sig"))

\* ------------------------------------------------------- claims on the buffer
Appending == {d \in Drains : drain[d] = "append"}

\* C15: at most one drain is inside the buffer append at any time; the buffer
\* changes only by the append of the line of the drain that holds the mutex,
\* every such append lands, and the earlier buffer is a prefix of the later.
C15_BufferExclusive ==
  [][/\ Cardinality(Appending) <= 1 /\ Cardinality(Appending') <= 1
     /\ outputBuffer' # outputBuffer
          => \E d \in Appending : mutex = d /\ outputBuffer' = Append(outputBuffer, cur[d])
     /\ \A d \in Appending : drain'[d] # "append"
          => outputBuffer' = Append(outputBuffer, cur[d])
     /\ Len(outputBuffer') >= Len(outputBuffer)
     /\ SubSeq(outputBuffer', 1, Len(outputBuffer)) = outputBuffer]_vars

\* the drains of two children of one split have both appended to the buffer
C15_Witness ==
  /\ Len(outputBuffer) = 2
  /\ \E c, o \in Cmds : SameSplit(c, o) /\ Len(FromChild(c)) = 1 /\ Len(FromChild(o)) = 1

\* how often a line of the buffer is in a file
InFile(p, text) == Len(SelectSeq(files[p].data, LAMBDA e : e = LineEntry(text)))

\* no drain is between its buffer append and its sink writes
DrainsSettled == \A d \in Drains : drain[d] \in {"none", "scan", "done"}

\* C20: while streaming is active after a StartStreaming that ran beside
\* publishing drains, once the drains have finished the line they hold, the
\* capture file has every line of the buffer exactly once.
C20_DumpExactlyOnce ==
  (streaming /\ pc["main"] = "idle" /\ OutputFile # NoPath /\ DrainsSettled)
     => \A k \in 1..Len(outputBuffer) : InFile(OutputFile, outputBuffer[k]) = 1

\* the lines of drain d in a sequence of formatted lines, as line numbers
OfDrain(texts, d) ==
  SelectSeq(texts, LAMBDA text : text[Len(text)][2] = d[1] /\ text[Len(text)][3] = d[2])
LineNo(text) == text[Len(text)][4]
\* the formatted lines a file holds, without header and footer
LinesIn(p) ==
  LET ls == SelectSeq(files[p].data, LAMBDA e : e.k = "line")
  IN [j \in 1..Len(ls) |-> ls[j].text]

\* C16: the lines of one stream of one child are in the buffer in the order
\* the child wrote them, each before the next, and in every file in that
\* order too (a line a file holds twice stands before the lines after it).
C16_StreamOrder ==
  \A d \in Drains :
     /\ LET b == OfDrain(outputBuffer, d)
        IN \A j, k \in 1..Len(b) : j < k => LineNo(b[j]) < LineNo(b[k])
     /\ \A p \in Paths :
          LET f == OfDrain(LinesIn(p), d)
          IN \A j, k \in 1..Len(f) : j < k => LineNo(f[j]) <= LineNo(f[k])

\* two lines of one stream are in the buffer and in the capture file
C16_Witness ==
  \E d \in Drains :
     /\ Len(OfDrain(outputBuffer, d)) = 2
     /\ \E p \in Paths :
          \E j, k \in 1..Len(OfDrain(LinesIn(p), d)) :
             LineNo(OfDrain(LinesIn(p), d)[j]) < LineNo(OfDrain(LinesIn(p), d)[k])

\* ----------------------------------------------- claims on recording files
\* C17: the duration in a recording's footer is the time of the StopRecording
\* that wrote it minus the start time in the recording's header.
C17_FooterDuration ==
  \A p \in Paths :
     \A j, k \in 1..Len(files[p].data) :
        (files[p].data[j].k = "header" /\ files[p].data[k].k = "footer")
           => files[p].data[k].dur = files[p].data[k].at - files[p].data[j].at

\* ------------------------------------------------- claims on formatted lines
IsTagged(text) == \E j \in 1..Len(text) : text[j][1] = "CMD"

\* C18: a line of a split command is its [CMDn] tag, then the timestamp
\* bracket when timestamps are enabled, then the raw line; with timestamps
\* disabled it is the tag and the raw line.
C18_TagThenTimestamp ==
  \A k \in 1..Len(outputBuffer) :
     LET text == outputBuffer[k] IN
     IsTagged(text) =>
        /\ text[1][1] = "CMD"
        /\ text[Len(text)][1] = "raw"
        /\ IF ShowTimestamp
             THEN Len(text) = 3 /\ text[2] = <<"ts">>
             ELSE Len(text) = 2

\* ------------------------------------------------------ claims on the wait
\* the Runner of child c is inside cmd.Wait(): a split Runner from the moment
\* its drains are started, ExecuteCommand after wg.Wait()
InWait(c) ==
  \/ runner[c] = "wait"
  \/ runner[c] = "main" /\ c \in Mine /\ pc["main"] = "ec_wait"

\* C19: while a Runner waits for its child's exit, both drains of the child
\* have reported end of stream.
C19_WaitAfterDrains ==
  \A c \in Cmds : InWait(c) => \A st \in Streams : drain[<<c, st>>] = "done"

\* ------------------------------------- claims on drains against stop calls
\* C21: in a recording file no line of a Runner stands after a footer: once
\* StopRecording has written the footer, no drain appends to the file.
C21_FooterIsLast ==
  \A p \in Paths :
     \A j, k \in 1..Len(files[p].data) :
        (j < k /\ files[p].data[j].k = "footer") => files[p].data[k].k # "line"

\* C22: while streaming is Idle and no StartStreaming or StopStreaming call is
\* in progress, a capture file of the Session that is gone from the disk stays
\* gone: no drain creates it again.
C22_CaptureFileStaysGone ==
  [][(/\ ~files[TmpPath].exists
      /\ ~streaming /\ ~streaming'
      /\ \A t \in Threads : ~InStreamingOp(t) /\ ~InStreamingOp(t)')
        => ~files'[TmpPath].exists]_vars

\* ------------------------------------------- claims on the capture-file path
\* C23: a StartStreaming of the control path that returns the error of the
\* buffer dump or of the encoder's start leaves streaming false, the handle
\* nil, the capture-file path not set to a temporary file and no temporary
\* file of the Session on the disk.
C23_FailedStartRestores ==
  [][(/\ pc["main"] \in {"ss_write", "ss_spawn"}
      /\ pc'["main"] = "idle"
      /\ pc["sig"] = "wait")
        => /\ lastErr'["main"] \in {"error writing to output file",
                                    "error starting FFmpeg"}
           /\ ~streaming' /\ streamProc' = 0
           /\ OutputFile' # TmpPath
           /\ ~files'[TmpPath].exists]_vars

\* a thread takes the step of StartStreaming or of StopStreaming that sets
\* the capture-file path
SetsPath(t) == pc[t] \in {"ss_check", "st_finish"} /\ pc'[t] # pc[t]

\* C24: while streaming is Active the capture-file path is not empty, and no
\* step other than StartStreaming's and StopStreaming's changes it: it stays
\* the path that the activating StartStreaming set.
C24_PathOwnedByStreaming ==
  [][streaming =>
       /\ OutputFile # NoPath
       /\ OutputFile' # OutputFile => \E t \in Threads : SetsPath(t)]_vars

\* ----------------------------------------------------- claims on long lines
\* C25: a drain of ExecuteCommand that has stopped reading has read every line
\* of its stream, and every line, whatever its length, is in the buffer once.
C25_LongLineDelivered ==
  \A d \in Drains :
     (runner[d[1]] = "main" /\ drain[d] = "done")
        => /\ \A i \in 1..Len(script[d[1]][d[2]]) : Copies(d, i) = 1
           /\ pos[d] = Len(script[d[1]][d[2]])

\* ------------------------------------------------- claims on the signal path
\* C27: the signal path enters Cleanup once, and the process does not end on
\* the signal path before that Cleanup has returned: the only step of the
\* signal path that ends the process is the os.Exit after Cleanup.
C27_SignalCleanupThenExit ==
  [][/\ pc'["sig"] = "cl_1" => pc["sig"] \in {"wait", "cl_1"}
     /\ (exited' /\ ~exited /\ pc["sig"] # "cl_end") => lastErr'["sig"] = lastErr["sig"]]_vars

\* -------------------------------------------------- claims on empty commands
\* the pipes of child c were created and cmd.Start was called
SpawnAttempted(c) == child[c] \in {"spawnfail", "running", "exit0", "exit1"}

\* C26: for an empty command string no pipe is created and no spawn is
\* attempted: the command is rejected by the check on the argument vector.
C26_EmptyCommandRejected ==
  \A c \in Cmds : command[c] = <<>> => ~SpawnAttempted(c) /\ child[c] = "rejected"

====
